---------------------------- MODULE Spec2Model ----------------------------
(***************************************************************************)
(* The natural-language chart resolver (utils/nlp_processor.py) and the    *)
(* column classifier (utils/data_processor.py) of the data visualizer.     *)
(*                                                                         *)
(* A Python str is a sequence of one-character strings, so that lower(),   *)
(* replace(), capitalize() and the `in` substring test are computed.  A    *)
(* Python dict is a sequence of [key, value] entries in insertion order.   *)
(* A DataFrame is [columns, rows, index_name]; a column carries its name,  *)
(* its dtype, its number of distinct non-null values and whether           *)
(* pd.to_datetime accepts its values.                                      *)
(***************************************************************************)
EXTENDS Integers, Sequences, FiniteSets, TLC

VARIABLES
    query,                  \* the text the user typed
    df,                     \* the dataset handed to the calls
    chart_type_keywords,    \* module global CHART_TYPE_KEYWORDS
    aggregation_keywords,   \* module global AGGREGATION_KEYWORDS
    viz_config,             \* what the last process_natural_language_query call returned
    resolution,             \* the locals and return value of the last process_natural_language_query call
    column_types,           \* what the last get_column_types call returned
    other_config,           \* what the last call on the other query returned
    runs,                   \* script runs so far, one call each
    session_runs,           \* script runs this session makes in all
    uploaded_files,         \* st.session_state.uploaded_files
    store_call,             \* the last call of a store function and what it returned
    current_file,           \* st.session_state.current_file
    active_integrations,    \* st.session_state.active_integrations
    selected_integration,   \* st.session_state.selected_integration, when set
    integration_action,     \* st.session_state.integration_action, when set
    inputs,                 \* what the text inputs of the setup panel hold
    oauth_flow              \* the clicks on Authorize and Connect to Service since the panel opened

resolver_vars == <<query, df, chart_type_keywords, aggregation_keywords, viz_config, resolution,
                   column_types, other_config, runs, session_runs>>

store_vars == <<uploaded_files, store_call>>

page_vars == <<current_file, active_integrations, selected_integration, integration_action,
               inputs, oauth_flow>>

vars == <<resolver_vars, store_vars, page_vars>>

\* ------------------------------------------------------------------ bounds
MaxCols == 3
MaxUnique == 21
MaxReruns == 3
MaxFiles == 1
MaxIntegrations == 2

\* ------------------------------------------------------- program constants
CategoricalMaxUnique == 20
UniqueRatioInverse == 10
HistogramBins == 20
PieHole == 0

\* --------------------------------------------------------------- str methods
UPPERCASE == <<"A", "B", "C", "D", "E", "F", "G", "H", "I", "J", "K", "L", "M", "N", "O", "P", "Q", "R", "S", "T", "U", "V", "W", "X", "Y", "Z">>
LOWERCASE == <<"a", "b", "c", "d", "e", "f", "g", "h", "i", "j", "k", "l", "m", "n", "o", "p", "q", "r", "s", "t", "u", "v", "w", "x", "y", "z">>

ToLower ==
    [c \in {UPPERCASE[i] : i \in 1..Len(UPPERCASE)} |->
        LOWERCASE[CHOOSE i \in 1..Len(UPPERCASE) : UPPERCASE[i] = c]]

ToUpper ==
    [c \in {LOWERCASE[i] : i \in 1..Len(LOWERCASE)} |->
        UPPERCASE[CHOOSE i \in 1..Len(LOWERCASE) : LOWERCASE[i] = c]]

lower_char(c) == IF c \in DOMAIN ToLower THEN ToLower[c] ELSE c

upper_char(c) == IF c \in DOMAIN ToUpper THEN ToUpper[c] ELSE c

str_lower(s) == [i \in 1..Len(s) |-> lower_char(s[i])]

str_capitalize(s) ==
    [i \in 1..Len(s) |-> IF i = 1 THEN upper_char(s[i]) ELSE lower_char(s[i])]

str_replace(s, old, new) == [i \in 1..Len(s) |-> IF s[i] = old THEN new ELSE s[i]]

str_endswith(s, c) == Len(s) > 0 /\ s[Len(s)] = c

\* `sub in s`
str_in(sub, s) ==
    \E i \in 0..(Len(s) - Len(sub)) : \A j \in 1..Len(sub) : s[i + j] = sub[j]

\* ------------------------------------------------------------- dict and list
dict_has(d, k) == \E i \in 1..Len(d) : d[i].key = k

\* d[k] = v: an existing key keeps its place, a new key goes last
dict_set(d, k, v) ==
    IF dict_has(d, k)
    THEN [i \in 1..Len(d) |-> IF d[i].key = k THEN [key |-> k, value |-> v] ELSE d[i]]
    ELSE Append(d, [key |-> k, value |-> v])

list_has(l, x) == \E i \in 1..Len(l) : l[i] = x

\* [col for col in l if col in keep]
RECURSIVE list_filter(_, _)
list_filter(l, keep) ==
    IF l = <<>> THEN <<>>
    ELSE IF list_has(keep, Head(l))
         THEN <<Head(l)>> \o list_filter(Tail(l), keep)
         ELSE list_filter(Tail(l), keep)

\* config[key] = value
config_set(config, key, value) ==
    [k \in DOMAIN config \cup {key} |-> IF k = key THEN value ELSE config[k]]

\* --------------------------------------------------------------- the tables
CHART_TYPE_KEYWORDS == <<
    [key |-> "bar_chart", value |-> <<<<"b", "a", "r">>, <<"b", "a", "r", "s">>, <<"b", "a", "r", " ", "c", "h", "a", "r", "t">>, <<"b", "a", "r", " ", "g", "r", "a", "p", "h">>, <<"c", "o", "l", "u", "m", "n">>, <<"c", "o", "l", "u", "m", "n", "s">>>>],
    [key |-> "line_chart", value |-> <<<<"l", "i", "n", "e">>, <<"l", "i", "n", "e", "s">>, <<"l", "i", "n", "e", " ", "c", "h", "a", "r", "t">>, <<"l", "i", "n", "e", " ", "g", "r", "a", "p", "h">>, <<"t", "r", "e", "n", "d">>, <<"t", "r", "e", "n", "d", "s">>, <<"t", "i", "m", "e", " ", "s", "e", "r", "i", "e", "s">>>>],
    [key |-> "scatter_plot", value |-> <<<<"s", "c", "a", "t", "t", "e", "r">>, <<"s", "c", "a", "t", "t", "e", "r", "p", "l", "o", "t">>, <<"s", "c", "a", "t", "t", "e", "r", " ", "p", "l", "o", "t">>, <<"p", "o", "i", "n", "t", "s">>, <<"c", "o", "r", "r", "e", "l", "a", "t", "i", "o", "n">>>>],
    [key |-> "pie_chart", value |-> <<<<"p", "i", "e">>, <<"p", "i", "e", " ", "c", "h", "a", "r", "t">>, <<"p", "r", "o", "p", "o", "r", "t", "i", "o", "n">>, <<"p", "e", "r", "c", "e", "n", "t", "a", "g", "e">>, <<"d", "i", "s", "t", "r", "i", "b", "u", "t", "i", "o", "n">>>>],
    [key |-> "histogram", value |-> <<<<"h", "i", "s", "t", "o", "g", "r", "a", "m">>, <<"d", "i", "s", "t", "r", "i", "b", "u", "t", "i", "o", "n">>, <<"f", "r", "e", "q", "u", "e", "n", "c", "y">>>>],
    [key |-> "box_plot", value |-> <<<<"b", "o", "x">>, <<"b", "o", "x", " ", "p", "l", "o", "t">>, <<"b", "o", "x", "p", "l", "o", "t">>, <<"w", "h", "i", "s", "k", "e", "r">>, <<"q", "u", "a", "r", "t", "i", "l", "e">>, <<"m", "e", "d", "i", "a", "n">>, <<"b", "o", "x", " ", "a", "n", "d", " ", "w", "h", "i", "s", "k", "e", "r">>>>],
    [key |-> "heatmap", value |-> <<<<"h", "e", "a", "t", "m", "a", "p">>, <<"h", "e", "a", "t", " ", "m", "a", "p">>, <<"c", "o", "r", "r", "e", "l", "a", "t", "i", "o", "n">>, <<"m", "a", "t", "r", "i", "x">>>>] >>

AGGREGATION_KEYWORDS == <<
    [key |-> "sum", value |-> <<<<"s", "u", "m">>, <<"t", "o", "t", "a", "l">>, <<"a", "d", "d">>>>],
    [key |-> "average", value |-> <<<<"a", "v", "e", "r", "a", "g", "e">>, <<"a", "v", "g">>, <<"m", "e", "a", "n">>>>],
    [key |-> "count", value |-> <<<<"c", "o", "u", "n", "t">>, <<"f", "r", "e", "q", "u", "e", "n", "c", "y">>, <<"o", "c", "c", "u", "r", "r", "e", "n", "c", "e", "s">>, <<"n", "u", "m", "b", "e", "r", " ", "o", "f">>>>],
    [key |-> "min", value |-> <<<<"m", "i", "n", "i", "m", "u", "m">>, <<"m", "i", "n">>, <<"l", "o", "w", "e", "s", "t">>, <<"s", "m", "a", "l", "l", "e", "s", "t">>>>],
    [key |-> "max", value |-> <<<<"m", "a", "x", "i", "m", "u", "m">>, <<"m", "a", "x">>, <<"h", "i", "g", "h", "e", "s", "t">>, <<"l", "a", "r", "g", "e", "s", "t">>>>],
    [key |-> "median", value |-> <<<<"m", "e", "d", "i", "a", "n">>, <<"m", "i", "d", "d", "l", "e">>>>] >>

\* --------------------------------------------------------------- DataFrame
df_columns(d) == [i \in 1..Len(d.columns) |-> d.columns[i].name]

\* df.select_dtypes(include=dtypes).columns.tolist()
RECURSIVE select_columns(_, _)
select_columns(cols, dtypes) ==
    IF cols = <<>> THEN <<>>
    ELSE IF Head(cols).dtype \in dtypes
         THEN <<Head(cols).name>> \o select_columns(Tail(cols), dtypes)
         ELSE select_columns(Tail(cols), dtypes)

select_dtypes(d, dtypes) == select_columns(d.columns, dtypes)

df_column(d, name) == d.columns[CHOOSE i \in 1..Len(d.columns) : d.columns[i].name = name]

\* pd.to_datetime(df[col]) returns instead of raising: a bool column raises
\* TypeError, an object or category column converts when its values parse
to_datetime_succeeds(col) == col.dtype \in {"object", "category"} /\ col.parses

\* pandas.api.types.is_numeric_dtype: integer, float and complex dtypes and bool
is_numeric_dtype(col) ==
    col.dtype \in {"int64", "float64", "int32", "bool"}

\* pandas.api.types.is_datetime64_any_dtype: naive and tz-aware datetime64
is_datetime64_any_dtype(col) == col.dtype \in {"datetime64", "datetime64tz"}

\* pandas.api.types.is_bool_dtype
is_bool_dtype(col) == col.dtype = "bool"


\* ------------------------------------------------ identify_visualization_type
\* keyword_hits with `scores[viz_type] = 1` for `scores[viz_type] += 1`
keyword_hits_once(keywords, q) ==
    IF \E i \in 1..Len(keywords) : str_in(keywords[i], q) THEN 1 ELSE 0

keyword_hits(keywords, q) == Cardinality({i \in 1..Len(keywords) : str_in(keywords[i], q)})

\* scores[viz_type], in the table's order
viz_scores(q, table) == [i \in 1..Len(table) |-> keyword_hits(table[i].value, q)]

max_score(scores) ==
    CHOOSE m \in {scores[i] : i \in 1..Len(scores)} \cup {0} :
        \A i \in 1..Len(scores) : scores[i] <= m

\* first_max keeping the last key with the highest score (`>=` for `>` in the scan)
last_max(scores) ==
    CHOOSE i \in 1..Len(scores) :
        /\ scores[i] = max_score(scores)
        /\ \A j \in (i + 1)..Len(scores) : scores[j] < scores[i]

\* max(scores, key=scores.get): the first key, in iteration order, with the highest score
first_max(scores) ==
    CHOOSE i \in 1..Len(scores) :
        /\ scores[i] = max_score(scores)
        /\ \A j \in 1..(i - 1) : scores[j] < scores[i]

\* identify_visualization_type without the `"over time" in query` test
identify_visualization_type_no_over_time(q, table) ==
    LET scores == viz_scores(q, table) IN
    IF max_score(scores) = 0
    THEN IF str_in(<<"t", "r", "e", "n", "d">>, q) \/ str_in(<<"t", "i", "m", "e", " ", "s", "e", "r", "i", "e", "s">>, q)
         THEN "line_chart"
         ELSE "bar_chart"
    ELSE table[first_max(scores)].key

identify_visualization_type(q, table) ==
    LET scores == viz_scores(q, table) IN
    IF max_score(scores) = 0
    THEN IF str_in(<<"o", "v", "e", "r", " ", "t", "i", "m", "e">>, q) \/ str_in(<<"t", "r", "e", "n", "d">>, q) \/ str_in(<<"t", "i", "m", "e", " ", "s", "e", "r", "i", "e", "s">>, q)
         THEN "line_chart"
         ELSE "bar_chart"
    ELSE table[first_max(scores)].key

\* ------------------------------------------------ identify_referenced_columns
\* column_variants without the replace('_', ' ') of the normalized form
column_variants_keeps_underscore(col) ==
    LET normalized == str_replace(str_lower(col), "-", " ") IN
    << str_lower(col),
       normalized,
       IF str_endswith(normalized, "s")
       THEN SubSeq(normalized, 1, Len(normalized) - 1)
       ELSE normalized \o <<"s">> >>

\* the three keys one column writes into column_variations, in the order written
column_variants(col) ==
    LET normalized == str_replace(str_replace(str_lower(col), "_", " "), "-", " ") IN
    << str_lower(col),
       normalized,
       IF str_endswith(normalized, "s")
       THEN SubSeq(normalized, 1, Len(normalized) - 1)
       ELSE normalized \o <<"s">> >>

RECURSIVE column_variations(_, _)
column_variations(columns, d) ==
    IF columns = <<>> THEN d
    ELSE LET col == Head(columns)
             v == column_variants(col)
         IN column_variations(Tail(columns),
                dict_set(dict_set(dict_set(d, v[1], col), v[2], col), v[3], col))

RECURSIVE collect_referenced(_, _, _)
collect_referenced(d, q, referenced_cols) ==
    IF d = <<>> THEN referenced_cols
    ELSE IF str_in(Head(d).key, q) /\ ~list_has(referenced_cols, Head(d).value)
         THEN collect_referenced(Tail(d), q, Append(referenced_cols, Head(d).value))
         ELSE collect_referenced(Tail(d), q, referenced_cols)

identify_referenced_columns(q, columns) ==
    collect_referenced(column_variations(columns, <<>>), q, <<>>)

\* ------------------------------------------------------- identify_aggregation
\* identify_aggregation returning the tag with the most matching phrases
identify_aggregation_best_score(q, table) ==
    IF \E i \in 1..Len(table) : keyword_hits(table[i].value, q) > 0
    THEN table[CHOOSE i \in 1..Len(table) :
                   /\ \A j \in 1..Len(table) :
                         keyword_hits(table[j].value, q) <= keyword_hits(table[i].value, q)
                   /\ \A j \in 1..(i - 1) :
                         keyword_hits(table[j].value, q) < keyword_hits(table[i].value, q)].key
    ELSE "sum"

identify_aggregation(q, table) ==
    IF \E i \in 1..Len(table) : keyword_hits(table[i].value, q) > 0
    THEN table[CHOOSE i \in 1..Len(table) :
                   /\ keyword_hits(table[i].value, q) > 0
                   /\ \A j \in 1..(i - 1) : keyword_hits(table[j].value, q) = 0].key
    ELSE "sum"

\* ------------------------------------------------------------- configurators
\* what a call that raised IndexError leaves instead of a configuration
IndexError == [raised |-> "IndexError"]

\* df.index.name or "index"
index_label(d) == IF d.index_name # <<>> THEN d.index_name ELSE <<"i", "n", "d", "e", "x">>

\* df.columns[1] if len(df.columns) > 1 else df.columns[0]
second_or_first_column(d) ==
    IF Len(d.columns) > 1 THEN df_columns(d)[2] ELSE df_columns(d)[1]

bar_chart_xy(config, d, referenced_cols, numeric_cols, categorical_cols, temporal_cols) ==
    IF Len(referenced_cols) >= 2
    THEN LET cat_refs == list_filter(referenced_cols, categorical_cols)
             num_refs == list_filter(referenced_cols, numeric_cols)
             time_refs == list_filter(referenced_cols, temporal_cols)
         IN IF cat_refs # <<>> /\ num_refs # <<>>
            THEN config_set(config_set(config, "x", cat_refs[1]), "y", num_refs[1])
            ELSE IF time_refs # <<>> /\ num_refs # <<>>
            THEN config_set(config_set(config, "x", time_refs[1]), "y", num_refs[1])
            ELSE config_set(config_set(config, "x", referenced_cols[1]), "y", referenced_cols[2])
    ELSE IF categorical_cols # <<>> /\ numeric_cols # <<>>
         THEN config_set(config_set(config, "x", categorical_cols[1]), "y", numeric_cols[1])
         ELSE IF temporal_cols # <<>> /\ numeric_cols # <<>>
         THEN config_set(config_set(config, "x", temporal_cols[1]), "y", numeric_cols[1])
         ELSE IF Len(numeric_cols) >= 2
         THEN config_set(config_set(config, "x", numeric_cols[1]), "y", numeric_cols[2])
         ELSE IF numeric_cols # <<>>
         THEN config_set(config_set(config, "x", index_label(d)), "y", numeric_cols[1])
         ELSE IF Len(d.columns) = 0
         THEN IndexError                       \* df.columns[0] of no columns
         ELSE config_set(config_set(config, "x", df_columns(d)[1]), "y", second_or_first_column(d))

\* configure_bar_chart with `config["aggregation"] = aggregation`
configure_bar_chart_stores_aggregation(config, d, referenced_cols, numeric_cols, categorical_cols, temporal_cols, aggregation) ==
    LET c1 == bar_chart_xy(config, d, referenced_cols, numeric_cols, categorical_cols, temporal_cols) IN
    IF c1 = IndexError THEN IndexError
    ELSE LET c2 == IF Len(categorical_cols) > 1 /\ categorical_cols[1] # c1["x"]
                   THEN config_set(c1, "color", categorical_cols[1])
                   ELSE c1
         IN config_set(config_set(c2, "orientation", "Vertical"), "aggregation", aggregation)

configure_bar_chart(config, d, referenced_cols, numeric_cols, categorical_cols, temporal_cols, aggregation) ==
    LET c1 == bar_chart_xy(config, d, referenced_cols, numeric_cols, categorical_cols, temporal_cols) IN
    IF c1 = IndexError THEN IndexError
    ELSE LET c2 == IF Len(categorical_cols) > 1 /\ categorical_cols[1] # c1["x"]
                   THEN config_set(c1, "color", categorical_cols[1])
                   ELSE c1
         IN config_set(c2, "orientation", "Vertical")

line_chart_xy(config, d, referenced_cols, numeric_cols, temporal_cols) ==
    LET num_refs == list_filter(referenced_cols, numeric_cols) IN
    IF temporal_cols # <<>>
    THEN LET c1 == config_set(config, "x", temporal_cols[1]) IN
         IF num_refs # <<>> THEN config_set(c1, "y", num_refs[1])
         ELSE IF numeric_cols # <<>> THEN config_set(c1, "y", numeric_cols[1])
         ELSE IF referenced_cols # <<>> THEN config_set(c1, "y", referenced_cols[1])
         ELSE IF Len(d.columns) = 0 THEN IndexError
         ELSE config_set(c1, "y", df_columns(d)[1])
    ELSE IF Len(numeric_cols) >= 2
         THEN IF Len(num_refs) >= 2
              THEN config_set(config_set(config, "x", num_refs[1]), "y", num_refs[2])
              ELSE config_set(config_set(config, "x", numeric_cols[1]), "y", numeric_cols[2])
         ELSE IF numeric_cols # <<>>
         THEN config_set(config_set(config, "x", index_label(d)), "y", numeric_cols[1])
         ELSE IF Len(d.columns) = 0
         THEN IndexError                       \* df.columns[0] of no columns
         ELSE config_set(config_set(config, "x", df_columns(d)[1]), "y", second_or_first_column(d))

configure_line_chart(config, d, referenced_cols, numeric_cols, categorical_cols, temporal_cols, aggregation) ==
    LET c1 == line_chart_xy(config, d, referenced_cols, numeric_cols, temporal_cols) IN
    IF c1 = IndexError THEN IndexError
    ELSE LET cat_refs == list_filter(referenced_cols, categorical_cols)
             c2 == IF categorical_cols # <<>>
                   THEN IF cat_refs # <<>>
                        THEN config_set(c1, "color", cat_refs[1])
                        ELSE config_set(c1, "color", categorical_cols[1])
                   ELSE c1
         IN config_set(c2, "markers", TRUE)

\* degrade_first_column without the `if numeric_cols` guard on numeric_cols[0]
degrade_first_column_unguarded(config, d, numeric_cols) ==
    IF Len(d.columns) = 0 \/ numeric_cols = <<>>
    THEN IndexError
    ELSE config_set(config_set(config_set(config, "chart_type", "bar_chart"),
                        "x", df_columns(d)[1]),
                        "y", numeric_cols[1])

\* the degrade branch shared by scatter_plot and pie_chart:
\*   config["chart_type"] = "bar_chart"; config["x"] = df.columns[0]
\*   config["y"] = numeric_cols[0] if numeric_cols else df.columns[1] if ... else df.columns[0]
degrade_first_column(config, d, numeric_cols) ==
    IF Len(d.columns) = 0
    THEN IndexError                            \* df.columns[0] of no columns
    ELSE config_set(config_set(config_set(config, "chart_type", "bar_chart"),
                        "x", df_columns(d)[1]),
                        "y", IF numeric_cols # <<>> THEN numeric_cols[1]
                             ELSE second_or_first_column(d))

configure_scatter_plot(config, d, referenced_cols, numeric_cols) ==
    IF Len(numeric_cols) >= 2
    THEN LET num_refs == list_filter(referenced_cols, numeric_cols)
             c1 == IF Len(num_refs) >= 2
                   THEN config_set(config_set(config, "x", num_refs[1]), "y", num_refs[2])
                   ELSE config_set(config_set(config, "x", numeric_cols[1]), "y", numeric_cols[2])
         IN IF Len(numeric_cols) > 2 /\ Len(num_refs) > 2
            THEN config_set(c1, "color", num_refs[3])
            ELSE IF Len(numeric_cols) > 2
            THEN config_set(c1, "color", numeric_cols[3])
            ELSE c1
    ELSE degrade_first_column(config, d, numeric_cols)

configure_pie_chart(config, d, referenced_cols, numeric_cols, categorical_cols, aggregation) ==
    IF categorical_cols # <<>> /\ numeric_cols # <<>>
    THEN LET cat_refs == list_filter(referenced_cols, categorical_cols)
             num_refs == list_filter(referenced_cols, numeric_cols)
             c1 == IF cat_refs # <<>> /\ num_refs # <<>>
                   THEN config_set(config_set(config, "names", cat_refs[1]), "values", num_refs[1])
                   ELSE config_set(config_set(config, "names", categorical_cols[1]), "values", numeric_cols[1])
         IN config_set(c1, "hole", PieHole)
    ELSE degrade_first_column(config, d, numeric_cols)

\* degrade_first_two_columns writing the tag "bar" for "bar_chart"
degrade_writes_bar(config, d) ==
    IF Len(d.columns) = 0
    THEN IndexError
    ELSE config_set(config_set(config_set(config, "chart_type", "bar"),
                        "x", df_columns(d)[1]),
                        "y", IF Len(d.columns) > 1 THEN df_columns(d)[2] ELSE df_columns(d)[1])

\* degrade_first_two_columns reading df.columns[1] without the length guard
degrade_second_column_unguarded(config, d) ==
    IF Len(d.columns) < 2
    THEN IndexError
    ELSE config_set(config_set(config_set(config, "chart_type", "bar_chart"),
                        "x", df_columns(d)[1]),
                        "y", df_columns(d)[2])

\* the degrade branch shared by histogram and box_plot, taken with no numeric column:
\*   config["chart_type"] = "bar_chart"; config["x"] = df.columns[0]
\*   config["y"] = df.columns[1] if len(df.columns) > 1 else df.columns[0]
degrade_first_two_columns(config, d) ==
    IF Len(d.columns) = 0
    THEN IndexError                            \* df.columns[0] of no columns
    ELSE config_set(config_set(config_set(config, "chart_type", "bar_chart"),
                        "x", df_columns(d)[1]),
                        "y", second_or_first_column(d))

\* configure_histogram asking for two numeric columns
configure_histogram_needs_two(config, d, referenced_cols, numeric_cols) ==
    IF Len(numeric_cols) >= 2
    THEN LET num_refs == list_filter(referenced_cols, numeric_cols)
             c1 == IF num_refs # <<>>
                   THEN config_set(config, "x", num_refs[1])
                   ELSE config_set(config, "x", numeric_cols[1])
         IN config_set(c1, "bins", HistogramBins)
    ELSE IF Len(d.columns) = 0
         THEN IndexError
         ELSE config_set(config_set(config_set(config, "chart_type", "bar_chart"),
                             "x", df_columns(d)[1]),
                             "y", IF Len(d.columns) > 1 THEN df_columns(d)[2] ELSE df_columns(d)[1])

configure_histogram(config, d, referenced_cols, numeric_cols) ==
    IF numeric_cols # <<>>
    THEN LET num_refs == list_filter(referenced_cols, numeric_cols)
             c1 == IF num_refs # <<>>
                   THEN config_set(config, "x", num_refs[1])
                   ELSE config_set(config, "x", numeric_cols[1])
         IN config_set(c1, "bins", HistogramBins)
    ELSE degrade_first_two_columns(config, d)

configure_box_plot(config, d, referenced_cols, numeric_cols, categorical_cols) ==
    IF numeric_cols # <<>>
    THEN LET num_refs == list_filter(referenced_cols, numeric_cols)
             cat_refs == list_filter(referenced_cols, categorical_cols)
             c1 == IF num_refs # <<>>
                   THEN config_set(config, "y", num_refs[1])
                   ELSE config_set(config, "y", numeric_cols[1])
         IN IF cat_refs # <<>> THEN config_set(c1, "x", cat_refs[1])
            ELSE IF categorical_cols # <<>> THEN config_set(c1, "x", categorical_cols[1])
            ELSE config_set(c1, "x", <<"N", "o", "n", "e">>)
    ELSE degrade_first_two_columns(config, d)

\* configure_heatmap with `config["y"] = categorical_cols[0]` in the one-reference branch
configure_heatmap_y_unguarded(config, d, referenced_cols, numeric_cols, categorical_cols) ==
    IF Len(categorical_cols) >= 2 /\ numeric_cols # <<>>
    THEN LET cat_refs == list_filter(referenced_cols, categorical_cols)
             num_refs == list_filter(referenced_cols, numeric_cols)
             c1 == IF Len(cat_refs) >= 2 /\ num_refs # <<>>
                   THEN config_set(config_set(config_set(config,
                            "x", cat_refs[1]), "y", cat_refs[2]), "values", num_refs[1])
                   ELSE IF Len(cat_refs) >= 2
                   THEN config_set(config_set(config_set(config,
                            "x", cat_refs[1]), "y", cat_refs[2]), "values", numeric_cols[1])
                   ELSE IF cat_refs # <<>> /\ num_refs # <<>>
                   THEN config_set(config_set(config_set(config,
                            "x", cat_refs[1]), "y", categorical_cols[1]), "values", num_refs[1])
                   ELSE config_set(config_set(config_set(config,
                            "x", categorical_cols[1]), "y", categorical_cols[2]),
                            "values", numeric_cols[1])
         IN config_set(c1, "color_scale", "Viridis")
    ELSE IF categorical_cols = <<>> /\ Len(d.columns) = 0
         THEN IndexError
         ELSE config_set(config_set(config_set(config, "chart_type", "bar_chart"),
                             "x", IF categorical_cols # <<>> THEN categorical_cols[1]
                                  ELSE df_columns(d)[1]),
                             "y", IF numeric_cols # <<>> THEN numeric_cols[1]
                                  ELSE second_or_first_column(d))

configure_heatmap(config, d, referenced_cols, numeric_cols, categorical_cols) ==
    IF Len(categorical_cols) >= 2 /\ numeric_cols # <<>>
    THEN LET cat_refs == list_filter(referenced_cols, categorical_cols)
             num_refs == list_filter(referenced_cols, numeric_cols)
             c1 == IF Len(cat_refs) >= 2 /\ num_refs # <<>>
                   THEN config_set(config_set(config_set(config,
                            "x", cat_refs[1]), "y", cat_refs[2]), "values", num_refs[1])
                   ELSE IF Len(cat_refs) >= 2
                   THEN config_set(config_set(config_set(config,
                            "x", cat_refs[1]), "y", cat_refs[2]), "values", numeric_cols[1])
                   ELSE IF cat_refs # <<>> /\ num_refs # <<>>
                   THEN config_set(config_set(config_set(config,
                            "x", cat_refs[1]),
                            "y", IF categorical_cols[1] # cat_refs[1]
                                 THEN categorical_cols[1] ELSE categorical_cols[2]),
                            "values", num_refs[1])
                   ELSE config_set(config_set(config_set(config,
                            "x", categorical_cols[1]), "y", categorical_cols[2]),
                            "values", numeric_cols[1])
         IN config_set(c1, "color_scale", "Viridis")
    ELSE IF categorical_cols = <<>> /\ Len(d.columns) = 0
         THEN IndexError                       \* df.columns[0] of no columns
         ELSE config_set(config_set(config_set(config, "chart_type", "bar_chart"),
                             "x", IF categorical_cols # <<>> THEN categorical_cols[1]
                                  ELSE df_columns(d)[1]),
                             "y", IF numeric_cols # <<>> THEN numeric_cols[1]
                                  ELSE second_or_first_column(d))

\* ------------------------------------------- process_natural_language_query
numeric_cols_of(d) == select_dtypes(d, {"int64", "float64"})

categorical_cols_of(d) == select_dtypes(d, {"object", "category", "bool"})

\* [col for col in categorical_cols if pd.to_datetime(df[col]) does not raise]
RECURSIVE convertible_columns(_, _)
convertible_columns(d, cols) ==
    IF cols = <<>> THEN <<>>
    ELSE IF to_datetime_succeeds(df_column(d, Head(cols)))
         THEN <<Head(cols)>> \o convertible_columns(d, Tail(cols))
         ELSE convertible_columns(d, Tail(cols))

temporal_cols_of(d) ==
    LET temporal_cols == select_dtypes(d, {"datetime64"}) IN
    IF temporal_cols = <<>>
    THEN convertible_columns(d, categorical_cols_of(d))
    ELSE temporal_cols

process_natural_language_query(raw_query, d, chart_table, agg_table) ==
    LET q == str_lower(raw_query)
        numeric_cols == numeric_cols_of(d)
        categorical_cols == categorical_cols_of(d)
        temporal_cols == temporal_cols_of(d)
        viz_type == identify_visualization_type(q, chart_table)
        referenced_cols == identify_referenced_columns(q, df_columns(d))
        aggregation == identify_aggregation(q, agg_table)
        config == [chart_type |-> viz_type, title |-> str_capitalize(q)]
    IN [ viz_type |-> viz_type,
         referenced_cols |-> referenced_cols,
         aggregation |-> aggregation,
         numeric_cols |-> numeric_cols,
         categorical_cols |-> categorical_cols,
         temporal_cols |-> temporal_cols,
         config |->
         CASE viz_type = "bar_chart" ->
              configure_bar_chart(config, d, referenced_cols, numeric_cols, categorical_cols, temporal_cols, aggregation)
         [] viz_type = "line_chart" ->
              configure_line_chart(config, d, referenced_cols, numeric_cols, categorical_cols, temporal_cols, aggregation)
         [] viz_type = "scatter_plot" ->
              configure_scatter_plot(config, d, referenced_cols, numeric_cols)
         [] viz_type = "pie_chart" ->
              configure_pie_chart(config, d, referenced_cols, numeric_cols, categorical_cols, aggregation)
         [] viz_type = "histogram" ->
              configure_histogram(config, d, referenced_cols, numeric_cols)
         [] viz_type = "box_plot" ->
              configure_box_plot(config, d, referenced_cols, numeric_cols, categorical_cols)
         [] viz_type = "heatmap" ->
              configure_heatmap(config, d, referenced_cols, numeric_cols, categorical_cols)
         [] OTHER -> config ]

\* ------------------------------------------------------------ get_column_types
\* cardinality_type with `unique_count <= 20`
cardinality_type_inclusive(unique_count, total_count) ==
    IF unique_count <= CategoricalMaxUnique THEN "categorical"
    ELSE IF total_count = 0 THEN "ZeroDivisionError"
    ELSE IF unique_count * UniqueRatioInverse < total_count THEN "categorical"
    ELSE "text"

\* unique_count < 20 or (unique_count / total_count) < 0.1: the division is only
\* evaluated when the first test fails, and divides by zero on an empty frame
cardinality_type(unique_count, total_count) ==
    IF unique_count < CategoricalMaxUnique THEN "categorical"
    ELSE IF total_count = 0 THEN "ZeroDivisionError"
    ELSE IF unique_count * UniqueRatioInverse < total_count THEN "categorical"
    ELSE "text"

\* column_type with the last tag spelled "string"
column_type_says_string(col, total_count) ==
    IF is_numeric_dtype(col) THEN "numeric"
    ELSE IF is_datetime64_any_dtype(col) THEN "datetime"
    ELSE IF is_bool_dtype(col) THEN "boolean"
    ELSE IF col.nunique < CategoricalMaxUnique
            \/ col.nunique * UniqueRatioInverse < total_count
         THEN "categorical"
         ELSE "string"

column_type(col, total_count) ==
    IF is_numeric_dtype(col) THEN "numeric"
    ELSE IF is_datetime64_any_dtype(col) THEN "datetime"
    ELSE IF is_bool_dtype(col) THEN "boolean"
    ELSE cardinality_type(col.nunique, total_count)

RECURSIVE classify_columns(_, _, _)
classify_columns(cols, total_count, types) ==
    IF cols = <<>> THEN [raised |-> FALSE, types |-> types]
    ELSE LET tag == column_type(Head(cols), total_count) IN
         IF tag = "ZeroDivisionError"
         THEN [raised |-> TRUE, types |-> <<>>]
         ELSE classify_columns(Tail(cols), total_count, dict_set(types, Head(cols).name, tag))

get_column_types(d) == classify_columns(d.columns, d.rows, <<>>)

\* ------------------------------------------------------------ session state
\* an optional value: None is the empty sequence
None == <<>>

Some(x) == <<x>>

\* d[k]
dict_get(d, k) == d[CHOOSE i \in 1..Len(d) : d[i].key = k].value

\* del d[k]
dict_del(d, k) == SelectSeq(d, LAMBDA e : e.key # k)

\* list(d.keys())
dict_keys(d) == [i \in 1..Len(d) |-> d[i].key]

\* no text input is shown
NoInputs == [field \in {} |-> ""]

\* app.py: the session state after the entry script has run
SessionStart ==
    /\ uploaded_files = <<>>
    /\ store_call = [fn |-> "none", filename |-> None, dataframe |-> None,
                     raised |-> FALSE, returned |-> None]
    /\ current_file = None
    /\ active_integrations = <<>>
    /\ selected_integration = None
    /\ integration_action = None
    /\ inputs = NoInputs
    /\ oauth_flow = "none"

\* ------------------------------------------------------------ dataset store
\* save_dataframe that keeps the dataframe already stored under the name
save_dataframe_keeps_first(files, filename, d) ==
    [ files |-> IF dict_has(files, filename) THEN files ELSE dict_set(files, filename, d),
      returned |-> TRUE ]

save_dataframe(files, filename, d) ==
    [ files |-> dict_set(files, filename, d), returned |-> TRUE ]

get_dataframe(files, filename) ==
    IF dict_has(files, filename)
    THEN [ raised |-> FALSE, returned |-> Some(dict_get(files, filename)) ]
    ELSE [ raised |-> TRUE, returned |-> None ]          \* FileNotFoundError

delete_dataframe(files, filename) ==
    IF dict_has(files, filename)
    THEN [ files |-> dict_del(files, filename), returned |-> TRUE ]
    ELSE [ files |-> files, returned |-> FALSE ]

list_uploaded_files(files) == dict_keys(files)

\* -------------------------------------------------------------- integrations
\* get_available_integrations(): id, auth_type, required_fields and the
\* config_fields with their type and, for a select, its first option
AvailableIntegrations == <<
    [ id |-> <<"q", "u", "i", "c", "k", "b", "o", "o", "k", "s">>, auth_type |-> "oauth", required_fields |-> << "oauth_token" >>,
      config_fields |-> << [id |-> "company_id", type |-> "text", first |-> ""],
                           [id |-> "date_range", type |-> "select", first |-> "Last month"] >> ],
    [ id |-> <<"s", "h", "o", "p", "i", "f", "y">>, auth_type |-> "api_key", required_fields |-> << "api_key", "shop_name" >>,
      config_fields |-> << [id |-> "shop_name", type |-> "text", first |-> ""],
                           [id |-> "data_types", type |-> "select", first |-> "Orders only"] >> ],
    [ id |-> <<"g", "o", "o", "g", "l", "e", "_", "a", "n", "a", "l", "y", "t", "i", "c", "s">>, auth_type |-> "oauth", required_fields |-> << "oauth_token" >>,
      config_fields |-> << [id |-> "view_id", type |-> "text", first |-> ""],
                           [id |-> "metrics", type |-> "select", first |-> "Page views"] >> ],
    [ id |-> <<"s", "a", "l", "e", "s", "f", "o", "r", "c", "e">>, auth_type |-> "oauth", required_fields |-> << "oauth_token" >>,
      config_fields |-> << [id |-> "instance_url", type |-> "text", first |-> ""] >> ],
    [ id |-> <<"m", "a", "i", "l", "c", "h", "i", "m", "p">>, auth_type |-> "api_key", required_fields |-> << "api_key" >>,
      config_fields |-> << [id |-> "list_id", type |-> "text", first |-> ""] >> ],
    [ id |-> <<"g", "o", "o", "g", "l", "e", "_", "s", "h", "e", "e", "t", "s">>, auth_type |-> "oauth", required_fields |-> << "oauth_token" >>,
      config_fields |-> << [id |-> "sheet_id", type |-> "text", first |-> ""],
                           [id |-> "sheet_range", type |-> "text", first |-> ""] >> ] >>

integration_details(id) ==
    AvailableIntegrations[CHOOSE i \in 1..Len(AvailableIntegrations) : AvailableIntegrations[i].id = id]

\* what a text input of the setup panel returns: what was typed, "" before that
text_input(widgets, field) == IF field \in DOMAIN widgets THEN widgets[field] ELSE ""

\* the config_fields loop of the setup panel
RECURSIVE config_auth_fields(_, _, _)
config_auth_fields(fields, widgets, auth_fields) ==
    IF fields = <<>> THEN auth_fields
    ELSE config_auth_fields(Tail(fields), widgets,
             dict_set(auth_fields, Head(fields).id,
                      IF Head(fields).type = "text" THEN text_input(widgets, Head(fields).id)
                      ELSE Head(fields).first))

\* the auth_fields dict one script run of the setup panel builds
setup_auth_fields(integration, widgets, authorize_clicked) ==
    LET by_auth_type ==
            IF integration.auth_type = "api_key"
            THEN << [key |-> "api_key", value |-> text_input(widgets, "api_key")] >>
            ELSE IF integration.auth_type = "oauth"
            THEN IF authorize_clicked
                 THEN << [key |-> "oauth_token", value |-> "simulated_oauth_token"],
                         [key |-> "oauth_secret", value |-> "simulated_oauth_secret"] >>
                 ELSE <<>>
            ELSE IF integration.auth_type = "credentials"
            THEN << [key |-> "username", value |-> text_input(widgets, "username")],
                    [key |-> "password", value |-> text_input(widgets, "password")] >>
            ELSE <<>>
    IN config_auth_fields(integration.config_fields, widgets, by_auth_type)

\* [field for field in required_fields if field not in auth_fields or not auth_fields[field]]
missing_fields(integration, auth_fields) ==
    SelectSeq(integration.required_fields,
              LAMBDA field : ~dict_has(auth_fields, field) \/ dict_get(auth_fields, field) = "")

\* setup_integration(integration_id, auth_fields)
setup_integration(integration_id, auth_fields) ==
    [ success |-> TRUE, message |-> "Integration set up successfully", integration_id |-> integration_id ]

\* the filename get_integration_data returns when no data_type is given
sync_filename(integration_id) ==
    CASE integration_id = <<"q", "u", "i", "c", "k", "b", "o", "o", "k", "s">> -> <<"q", "u", "i", "c", "k", "b", "o", "o", "k", "s", "_", "f", "i", "n", "a", "n", "c", "i", "a", "l", "_", "d", "a", "t", "a", ".", "c", "s", "v">>
      [] integration_id = <<"s", "h", "o", "p", "i", "f", "y">> -> <<"s", "h", "o", "p", "i", "f", "y", "_", "s", "a", "l", "e", "s", "_", "d", "a", "t", "a", ".", "c", "s", "v">>
      [] integration_id = <<"g", "o", "o", "g", "l", "e", "_", "a", "n", "a", "l", "y", "t", "i", "c", "s">> -> <<"g", "o", "o", "g", "l", "e", "_", "a", "n", "a", "l", "y", "t", "i", "c", "s", "_", "p", "a", "g", "e", "s", ".", "c", "s", "v">>
      [] OTHER -> integration_id \o <<"_", "d", "a", "t", "a", ".", "c", "s", "v">>

\* the first entry of the manage panel's data types, the multiselect's default
first_data_type(integration_id) ==
    CASE integration_id = <<"q", "u", "i", "c", "k", "b", "o", "o", "k", "s">> -> <<"I", "n", "v", "o", "i", "c", "e", "s">>
      [] integration_id = <<"s", "h", "o", "p", "i", "f", "y">> -> <<"O", "r", "d", "e", "r", "s">>
      [] integration_id = <<"g", "o", "o", "g", "l", "e", "_", "a", "n", "a", "l", "y", "t", "i", "c", "s">> -> <<"W", "e", "b", "s", "i", "t", "e", " ", "T", "r", "a", "f", "f", "i", "c">>
      [] OTHER -> <<"A", "l", "l", " ", "D", "a", "t", "a">>

\* f"{integration['id']}_{data_type.lower().replace(' ', '_').replace('&', 'and')}.csv"
\* for a data type without '&', as every first entry is
selected_data_filename(integration_id, data_type) ==
    integration_id \o <<"_">> \o str_replace(str_lower(data_type), " ", "_") \o <<".", "c", "s", "v">>

\* ------------------------------------------------------------------- inputs
\* column names by position
SchemaNames == << <<"D", "a", "t", "e">>, <<"R", "e", "g", "i", "o", "n">>, <<"R", "e", "v", "e", "n", "u", "e">>, <<"U", "n", "i", "t", "s">>, <<"S", "e", "g", "m", "e", "n", "t">> >>

\* how a query mentions the column at each position: as written, in the
\* plural, capitalised, in the singular
MentionWords == << <<"d", "a", "t", "e">>, <<"r", "e", "g", "i", "o", "n", "s">>, <<"R", "e", "v", "e", "n", "u", "e">>, <<"u", "n", "i", "t">>, <<"s", "e", "g", "m", "e", "n", "t", "s">> >>

\* how a query asks for a chart: without any chart keyword, or with the
\* keywords of one of the seven types
ChartPhrases == { <<"S", "h", "o", "w">>, <<"B", "a", "r", " ", "c", "h", "a", "r", "t", " ", "o", "f">>, <<"l", "i", "n", "e">>, <<"S", "c", "a", "t", "t", "e", "r", " ", "p", "l", "o", "t">>, <<"p", "i", "e">>,
                  <<"h", "i", "s", "t", "o", "g", "r", "a", "m">>, <<"B", "o", "x", " ", "p", "l", "o", "t">>, <<"h", "e", "a", "t", "m", "a", "p">> }

\* dtype and whether pd.to_datetime accepts the values
ColumnKinds == { [dtype |-> "int64", parses |-> FALSE],
                 [dtype |-> "object", parses |-> FALSE],
                 [dtype |-> "object", parses |-> TRUE],
                 [dtype |-> "datetime64", parses |-> FALSE] }

KindSeqs == UNION { [1..n -> ColumnKinds] : n \in 0..MaxCols }

typed_frame(kinds) ==
    [ columns |-> [i \in 1..Len(kinds) |->
                     [name |-> SchemaNames[i], dtype |-> kinds[i].dtype,
                      parses |-> kinds[i].parses, nunique |-> 3]],
      rows |-> 12,
      index_name |-> <<>> ]

\* the positions in S, lowest first
ascending(S) ==
    [i \in 1..Cardinality(S) |-> CHOOSE x \in S : Cardinality({y \in S : y < x}) = i - 1]

descending(S) ==
    [i \in 1..Cardinality(S) |-> CHOOSE x \in S : Cardinality({y \in S : y > x}) = i - 1]

\* a query mentions any of the columns, in column order or in the reverse order
MentionSeqs ==
    { ascending(S) : S \in SUBSET (1..MaxCols) } \cup { descending(S) : S \in SUBSET (1..MaxCols) }

\* the chart phrase followed by the mentions, a space between words
RECURSIVE join_words(_, _)
join_words(text, m) ==
    IF m = <<>> THEN text
    ELSE join_words(text \o <<" ">> \o MentionWords[Head(m)], Tail(m))

TypedQueries == { join_words(p, m) : p \in ChartPhrases, m \in MentionSeqs }

RepeatQueries == { <<"p", "i", "e">>, <<"l", "i", "n", "e">> }

\* one column whose cardinality sits around the classifier's two thresholds
ProbeDTypes == { "int64", "float64", "int32", "bool", "datetime64", "datetime64tz",
                 "object", "category", "timedelta64" }

RowChoices(u) ==
    { n \in { u, u + 1, u * UniqueRatioInverse - 1, u * UniqueRatioInverse,
              u * UniqueRatioInverse + 1 } : n >= u }

probe_frame(dtype, u, n) ==
    [ columns |-> << [name |-> <<"V", "a", "l", "u", "e">>, dtype |-> dtype,
                      parses |-> (n = 0 /\ dtype \in {"object", "category"}),
                      nunique |-> u] >>,
      rows |-> n,
      index_name |-> <<>> ]

\* datasets with the column names and dtypes of the documented scenarios:
\* two names written with underscores; three names of which the first and
\* the last are each other's singular and plural; a dated table whose
\* timestamps are naive or carry a time zone
ScenarioSchemas ==
    { << [name |-> <<"C", "u", "s", "t", "o", "m", "e", "r", "_", "A", "g", "e">>, dtype |-> "int64"], [name |-> <<"S", "a", "l", "e", "_", "A", "m", "o", "u", "n", "t">>, dtype |-> "float64"] >>,
      << [name |-> <<"S", "a", "l", "e", "s">>, dtype |-> "int64"], [name |-> <<"R", "e", "g", "i", "o", "n">>, dtype |-> "int64"],
         [name |-> <<"S", "a", "l", "e">>, dtype |-> "int64"] >>,
      << [name |-> <<"S", "a", "l", "e", "s">>, dtype |-> "int64"], [name |-> <<"R", "e", "g", "i", "o", "n">>, dtype |-> "object"],
         [name |-> <<"S", "a", "l", "e">>, dtype |-> "float64"] >>,
      << [name |-> <<"D", "a", "t", "e">>, dtype |-> "datetime64"], [name |-> <<"R", "e", "g", "i", "o", "n">>, dtype |-> "object"],
         [name |-> <<"R", "e", "v", "e", "n", "u", "e">>, dtype |-> "int64"] >>,
      << [name |-> <<"R", "e", "v", "e", "n", "u", "e">>, dtype |-> "float64"], [name |-> <<"R", "e", "g", "i", "o", "n">>, dtype |-> "category"],
         [name |-> <<"D", "a", "t", "e">>, dtype |-> "datetime64"] >>,
      << [name |-> <<"D", "a", "t", "e">>, dtype |-> "datetime64tz"], [name |-> <<"R", "e", "g", "i", "o", "n">>, dtype |-> "object"],
         [name |-> <<"R", "e", "v", "e", "n", "u", "e">>, dtype |-> "int64"] >> }

scenario_frame(schema) ==
    [ columns |-> [i \in 1..Len(schema) |->
                     [name |-> schema[i].name, dtype |-> schema[i].dtype,
                      parses |-> FALSE, nunique |-> 4]],
      rows |-> 12,
      index_name |-> <<>> ]

\* queries whose words hit the keyword tables and the column names several ways
ScenarioQueries ==
    { <<"s", "h", "o", "w", " ", "m", "e", " ", "a", " ", "l", "i", "n", "e", " ", "c", "h", "a", "r", "t", " ", "o", "f", " ", "s", "a", "l", "e", "s">>,
      <<"R", "e", "v", "e", "n", "u", "e", " ", "d", "i", "s", "t", "r", "i", "b", "u", "t", "i", "o", "n", " ", "a", "s", " ", "a", " ", "b", "o", "x", " ", "p", "l", "o", "t">>,
      <<"r", "e", "v", "e", "n", "u", "e", " ", "t", "r", "e", "n", "d", " ", "o", "v", "e", "r", " ", "t", "i", "m", "e">>,
      <<"r", "e", "v", "e", "n", "u", "e", " ", "b", "y", " ", "r", "e", "g", "i", "o", "n">>,
      <<"R", "e", "v", "e", "n", "u", "e", " ", "o", "v", "e", "r", " ", "t", "i", "m", "e">>,
      <<"s", "h", "o", "w", " ", "m", "e", " ", "s", "a", "l", "e", "s", " ", "b", "y", " ", "c", "u", "s", "t", "o", "m", "e", "r", " ", "a", "g", "e">>,
      <<"s", "h", "o", "w", " ", "m", "e", " ", "s", "a", "l", "e", " ", "a", "m", "o", "u", "n", "t", "s", " ", "b", "y", " ", "c", "u", "s", "t", "o", "m", "e", "r", " ", "a", "g", "e">>,
      <<"S", "c", "a", "t", "t", "e", "r", " ", "p", "l", "o", "t", " ", "o", "f", " ", "s", "a", "l", "e", "s">>,
      <<"s", "c", "a", "t", "t", "e", "r", " ", "r", "e", "g", "i", "o", "n", " ", "a", "g", "a", "i", "n", "s", "t", " ", "s", "a", "l", "e", "s">>,
      <<"A", "v", "e", "r", "a", "g", "e", " ", "a", "n", "d", " ", "t", "o", "t", "a", "l", " ", "r", "e", "v", "e", "n", "u", "e">>,
      <<"l", "o", "w", "e", "s", "t", " ", "a", "n", "d", " ", "h", "i", "g", "h", "e", "s", "t", " ", "s", "a", "l", "e", "s">>,
      <<"N", "u", "m", "b", "e", "r", " ", "o", "f", " ", "r", "e", "g", "i", "o", "n", "s", " ", "w", "i", "t", "h", " ", "t", "h", "e", " ", "m", "a", "x", "i", "m", "u", "m", " ", "r", "e", "v", "e", "n", "u", "e">>,
      <<"d", "i", "s", "t", "r", "i", "b", "u", "t", "i", "o", "n", " ", "o", "f", " ", "r", "e", "v", "e", "n", "u", "e">>,
      <<"M", "e", "d", "i", "a", "n", " ", "t", "r", "e", "n", "d", " ", "o", "f", " ", "s", "a", "l", "e", "s">>,
      <<"c", "o", "r", "r", "e", "l", "a", "t", "i", "o", "n", " ", "m", "a", "t", "r", "i", "x", " ", "o", "f", " ", "r", "e", "v", "e", "n", "u", "e", " ", "a", "n", "d", " ", "s", "a", "l", "e", "s">> }

\* ------------------------------------------------------------ state machine
NoResult == [pending |-> TRUE]

NoTypes == [called |-> FALSE, raised |-> FALSE, types |-> <<>>]

Called(config) == ~("pending" \in DOMAIN config)

Raised(config) == "raised" \in DOMAIN config

HasReturned(config) == Called(config) /\ ~Raised(config)

\* a second query the same session asks of the same dataset
OtherQuery == <<"P", "i", "e", " ", "c", "h", "a", "r", "t", " ", "o", "f", " ", "r", "e", "g", "i", "o", "n", "s">>

\* every typed frame with every typed query, resolved or classified once
InitTyped ==
    /\ \E kinds \in KindSeqs : df = typed_frame(kinds)
    /\ query \in TypedQueries
    /\ session_runs = 1

\* every typed frame across several script runs, with the two queries whose
\* bindings rest on the categorical and the temporal lists
InitRepeat ==
    /\ \E kinds \in KindSeqs : df = typed_frame(kinds)
    /\ query \in RepeatQueries
    /\ session_runs = MaxReruns

\* every probe frame, resolved or classified once
InitProbe ==
    /\ \E t \in ProbeDTypes, u \in 0..MaxUnique :
         /\ t = "bool" => u <= 2
         /\ \E n \in RowChoices(u) : df = probe_frame(t, u, n)
    /\ query = <<"H", "i", "s", "t", "o", "g", "r", "a", "m", " ", "o", "f", " ", "v", "a", "l", "u", "e", "s">>
    /\ session_runs = 1

\* every scenario dataset with every scenario query, resolved or classified once
InitScenario ==
    /\ \E schema \in ScenarioSchemas : df = scenario_frame(schema)
    /\ query \in ScenarioQueries
    /\ session_runs = 1

Init ==
    /\ InitTyped \/ InitRepeat \/ InitProbe \/ InitScenario
    /\ chart_type_keywords = CHART_TYPE_KEYWORDS
    /\ aggregation_keywords = AGGREGATION_KEYWORDS
    /\ viz_config = NoResult
    /\ resolution = NoResult
    /\ column_types = NoTypes
    /\ other_config = NoResult
    /\ runs = 0
    /\ SessionStart

\* ProcessQuery with `df[col] = pd.to_datetime(df[col])`: the trial conversion
\* of lines 66-72 written back into the caller's frame
ProcessQueryConvertsInPlace ==
    /\ runs < session_runs
    /\ resolution' = process_natural_language_query(query, df, chart_type_keywords, aggregation_keywords)
    /\ viz_config' = resolution'.config
    /\ df' = [df EXCEPT !.columns =
                 [i \in 1..Len(df.columns) |->
                    IF select_dtypes(df, {"datetime64"}) = <<>>
                       /\ df.columns[i].dtype \in {"object", "category", "bool"}
                       /\ to_datetime_succeeds(df.columns[i])
                    THEN [df.columns[i] EXCEPT !.dtype = "datetime64"]
                    ELSE df.columns[i]]]
    /\ runs' = runs + 1
    /\ UNCHANGED <<query, chart_type_keywords, aggregation_keywords, column_types,
                   other_config, session_runs>>
    /\ UNCHANGED <<store_vars, page_vars>>

\* pages/2_Data_Visualization.py: viz_config = process_natural_language_query(nl_query, df)
ProcessQuery ==
    /\ runs < session_runs
    /\ resolution' = process_natural_language_query(query, df, chart_type_keywords, aggregation_keywords)
    /\ viz_config' = resolution'.config
    /\ runs' = runs + 1
    /\ UNCHANGED <<query, df, chart_type_keywords, aggregation_keywords, column_types,
                   other_config, session_runs>>
    /\ UNCHANGED <<store_vars, page_vars>>

\* the same call in a run where the user typed the other query
ProcessOtherQuery ==
    /\ runs < session_runs
    /\ session_runs > 1
    /\ other_config' = process_natural_language_query(OtherQuery, df, chart_type_keywords, aggregation_keywords).config
    /\ runs' = runs + 1
    /\ UNCHANGED <<query, df, chart_type_keywords, aggregation_keywords, viz_config, resolution,
                   column_types, session_runs>>
    /\ UNCHANGED <<store_vars, page_vars>>

\* utils/visualization.py: column_types = get_column_types(df)
GetColumnTypes ==
    /\ runs < session_runs
    /\ column_types' = [called |-> TRUE] @@ get_column_types(df)
    /\ runs' = runs + 1
    /\ UNCHANGED <<query, df, chart_type_keywords, aggregation_keywords, viz_config, resolution,
                   other_config, session_runs>>
    /\ UNCHANGED <<store_vars, page_vars>>

Next == ProcessQuery \/ ProcessOtherQuery \/ GetColumnTypes

Spec == Init /\ [][Next]_vars

\* ------------------------------------------------- the store functions, called
\* names an uploaded file can have
UploadNames == << <<"s", "a", "l", "e", "s", ".", "c", "s", "v">>, <<"s", "t", "o", "c", "k", ".", "x", "l", "s", "x">>, <<"o", "r", "d", "e", "r", "s", ".", "c", "s", "v">> >>

\* the keys of sample_data, in the order the selectbox lists them
SampleNames == << <<"R", "e", "t", "a", "i", "l", " ", "S", "a", "l", "e", "s">>, <<"I", "n", "v", "e", "n", "t", "o", "r", "y", " ", "M", "a", "n", "a", "g", "e", "m", "e", "n", "t">>, <<"F", "i", "n", "a", "n", "c", "i", "a", "l", " ", "P", "e", "r", "f", "o", "r", "m", "a", "n", "c", "e">>,
                  <<"M", "a", "r", "k", "e", "t", "i", "n", "g", " ", "C", "a", "m", "p", "a", "i", "g", "n">>, <<"C", "u", "s", "t", "o", "m", "e", "r", " ", "F", "e", "e", "d", "b", "a", "c", "k">> >>

\* f"{selected_sample.replace(' ', '_')}_Sample.csv"
sample_filename(selected_sample) == str_replace(selected_sample, " ", "_") \o <<"_", "S", "a", "m", "p", "l", "e", ".", "c", "s", "v">>

Uploads == {UploadNames[i] : i \in 1..MaxFiles}

Samples == {SampleNames[i] : i \in 1..MaxFiles}

\* what the file_name text input holds: nothing, or a name of the user's
FileNameInputs == {<<>>, <<"r", "e", "p", "o", "r", "t">>}

\* the names the pages save under
StoreNames == Uploads \cup (FileNameInputs \ {<<>>}) \cup {sample_filename(sample) : sample \in Samples}

\* the dataframes a caller passes
Datasets == {"first dataframe", "second dataframe"}

\* the resolver is not called: its variables stay as the session found them
ResolverIdle ==
    /\ query = <<"S", "h", "o", "w">>
    /\ df = typed_frame(<<>>)
    /\ chart_type_keywords = CHART_TYPE_KEYWORDS
    /\ aggregation_keywords = AGGREGATION_KEYWORDS
    /\ viz_config = NoResult
    /\ resolution = NoResult
    /\ column_types = NoTypes
    /\ other_config = NoResult
    /\ runs = 0
    /\ session_runs = 0

StoreInit == ResolverIdle /\ SessionStart

SaveDataframe ==
    \E filename \in StoreNames, d \in Datasets :
        LET call == save_dataframe(uploaded_files, filename, d)
        IN /\ uploaded_files' = call.files
           /\ store_call' = [fn |-> "save_dataframe", filename |-> Some(filename), dataframe |-> Some(d),
                             raised |-> FALSE, returned |-> Some(call.returned)]
           /\ UNCHANGED <<resolver_vars, page_vars>>

GetDataframe ==
    \E filename \in StoreNames :
        LET call == get_dataframe(uploaded_files, filename)
        IN /\ store_call' = [fn |-> "get_dataframe", filename |-> Some(filename), dataframe |-> None,
                             raised |-> call.raised, returned |-> call.returned]
           /\ UNCHANGED <<uploaded_files, resolver_vars, page_vars>>

DeleteDataframe ==
    \E filename \in StoreNames :
        LET call == delete_dataframe(uploaded_files, filename)
        IN /\ uploaded_files' = call.files
           /\ store_call' = [fn |-> "delete_dataframe", filename |-> Some(filename), dataframe |-> None,
                             raised |-> FALSE, returned |-> Some(call.returned)]
           /\ UNCHANGED <<resolver_vars, page_vars>>

ListUploadedFiles ==
    /\ store_call' = [fn |-> "list_uploaded_files", filename |-> None, dataframe |-> None,
                      raised |-> FALSE, returned |-> Some(list_uploaded_files(uploaded_files))]
    /\ UNCHANGED <<uploaded_files, resolver_vars, page_vars>>

StoreNext == SaveDataframe \/ GetDataframe \/ DeleteDataframe \/ ListUploadedFiles

StoreSpec == StoreInit /\ [][StoreNext]_vars

\* ---------------------------------------------------------- the pages, clicked
SessionInit == ResolverIdle /\ SessionStart

\* the integrations the user opens
Integrations == {AvailableIntegrations[i] : i \in 1..MaxIntegrations}

\* the dataframes the pages store
SampleDataset == "sample dataframe"

SyncedDataset == "synced dataframe"

\* pd.Timestamp.now().strftime("%Y-%m-%d %H:%M"), the clock left out
Now == "now"

\* what the user types into a text input
TypedTexts == {"", "typed"}

\* integration['id'] in st.session_state.active_integrations
is_connected(integration_id) == dict_has(active_integrations, integration_id)

setup_panel_open == selected_integration # None /\ integration_action = Some("setup")

manage_panel_open == selected_integration # None /\ integration_action = Some("manage")

\* the keys of the text inputs the setup panel of an integration shows
text_fields(integration) ==
    ( IF integration.auth_type = "api_key" THEN {"api_key"}
      ELSE IF integration.auth_type = "credentials" THEN {"username", "password"}
      ELSE {} )
    \cup {integration.config_fields[i].id :
              i \in {j \in 1..Len(integration.config_fields) : integration.config_fields[j].type = "text"}}

\* 1_Data_Upload.py, File Upload tab: Save Dataset
SaveDataset ==
    \E uploaded_name \in Uploads, file_name \in FileNameInputs, d \in Datasets :
        LET save_name == IF file_name # <<>> THEN file_name ELSE uploaded_name
        IN /\ uploaded_files' = save_dataframe(uploaded_files, save_name, d).files
           /\ current_file' = Some(save_name)
           /\ UNCHANGED <<resolver_vars, store_call, active_integrations, selected_integration,
                          integration_action, inputs, oauth_flow>>

\* 1_Data_Upload.py, Sample Data tab: Load Sample Dataset
LoadSampleDataset ==
    \E selected_sample \in Samples :
        LET filename == sample_filename(selected_sample)
        IN /\ uploaded_files' = save_dataframe(uploaded_files, filename, SampleDataset).files
           /\ current_file' = Some(filename)
           /\ UNCHANGED <<resolver_vars, store_call, active_integrations, selected_integration,
                          integration_action, inputs, oauth_flow>>

\* 1_Data_Upload.py, Manage Data tab: Set as Active Dataset
SetActiveDataset ==
    \E i \in 1..Len(list_uploaded_files(uploaded_files)) :
        LET selected_file == list_uploaded_files(uploaded_files)[i]
        IN /\ ~get_dataframe(uploaded_files, selected_file).raised
           /\ current_file' = Some(selected_file)
           /\ UNCHANGED <<resolver_vars, store_vars, active_integrations, selected_integration,
                          integration_action, inputs, oauth_flow>>

\* Delete Dataset that leaves current_file as it is
DeleteDatasetKeepsCurrent ==
    \E i \in 1..Len(list_uploaded_files(uploaded_files)) :
        LET selected_file == list_uploaded_files(uploaded_files)[i]
        IN /\ ~get_dataframe(uploaded_files, selected_file).raised
           /\ uploaded_files' = delete_dataframe(uploaded_files, selected_file).files
           /\ current_file' = current_file
           /\ UNCHANGED <<resolver_vars, store_call, active_integrations, selected_integration,
                          integration_action, inputs, oauth_flow>>

\* 1_Data_Upload.py, Manage Data tab: Delete Dataset
DeleteDataset ==
    \E i \in 1..Len(list_uploaded_files(uploaded_files)) :
        LET selected_file == list_uploaded_files(uploaded_files)[i]
        IN /\ ~get_dataframe(uploaded_files, selected_file).raised
           /\ uploaded_files' = delete_dataframe(uploaded_files, selected_file).files
           /\ current_file' = IF current_file = Some(selected_file) THEN None ELSE current_file
           /\ UNCHANGED <<resolver_vars, store_call, active_integrations, selected_integration,
                          integration_action, inputs, oauth_flow>>

\* 2_Data_Visualization.py: a run of the page with a dataset selected
SelectOnVisualization ==
    \E i \in 1..Len(list_uploaded_files(uploaded_files)) :
        LET selected_file == list_uploaded_files(uploaded_files)[i]
        IN /\ ~get_dataframe(uploaded_files, selected_file).raised
           /\ current_file' = Some(selected_file)
           /\ UNCHANGED <<resolver_vars, store_vars, active_integrations, selected_integration,
                          integration_action, inputs, oauth_flow>>

\* 3_Templates.py: a run of the page with a dataset selected
SelectOnTemplates ==
    \E i \in 1..Len(list_uploaded_files(uploaded_files)) :
        LET selected_file == list_uploaded_files(uploaded_files)[i]
        IN /\ ~get_dataframe(uploaded_files, selected_file).raised
           /\ current_file' = Some(selected_file)
           /\ UNCHANGED <<resolver_vars, store_vars, active_integrations, selected_integration,
                          integration_action, inputs, oauth_flow>>

\* 4_Integrations.py, Available Integrations tab: Connect
ClickConnect ==
    \E integration \in Integrations :
        /\ ~is_connected(integration.id)
        /\ selected_integration' = Some(integration.id)
        /\ integration_action' = Some("setup")
        /\ inputs' = [field \in text_fields(integration) |-> ""]
        /\ oauth_flow' = "none"
        /\ UNCHANGED <<resolver_vars, store_vars, current_file, active_integrations>>

\* 4_Integrations.py, Available Integrations tab: Manage Connection
ClickManageConnection ==
    \E integration \in Integrations :
        /\ is_connected(integration.id)
        /\ selected_integration' = Some(integration.id)
        /\ integration_action' = Some("manage")
        /\ inputs' = NoInputs
        /\ oauth_flow' = "none"
        /\ UNCHANGED <<resolver_vars, store_vars, current_file, active_integrations>>

\* 4_Integrations.py, setup panel: the user types into a text input
TypeText ==
    /\ setup_panel_open
    /\ \E field \in DOMAIN inputs, text \in TypedTexts :
           inputs' = [inputs EXCEPT ![field] = text]
    /\ UNCHANGED <<resolver_vars, store_vars, current_file, active_integrations,
                   selected_integration, integration_action, oauth_flow>>

\* 4_Integrations.py, setup panel: Authorize. The run sets oauth_token in its
\* own auth_fields and ends; nothing of it is kept in the session state
ClickAuthorize ==
    /\ setup_panel_open
    /\ integration_details(selected_integration[1]).auth_type = "oauth"
    /\ dict_has(setup_auth_fields(integration_details(selected_integration[1]), inputs, TRUE),
                "oauth_token")
    /\ oauth_flow' = "authorized"
    /\ UNCHANGED <<resolver_vars, store_vars, current_file, active_integrations,
                   selected_integration, integration_action, inputs>>

\* 4_Integrations.py, setup panel: Connect to Service
ClickConnectToService ==
    /\ setup_panel_open
    /\ LET integration == integration_details(selected_integration[1])
           auth_fields == setup_auth_fields(integration, inputs, FALSE)
       IN IF missing_fields(integration, auth_fields) # <<>>
          THEN /\ oauth_flow' = IF oauth_flow = "none" THEN "none" ELSE "connect clicked"
               /\ UNCHANGED <<active_integrations, selected_integration, integration_action, inputs>>
          ELSE /\ setup_integration(integration.id, auth_fields).success
               /\ active_integrations' =
                      dict_set(active_integrations, integration.id,
                               [status |-> "Connected", auth |-> auth_fields, last_sync |-> Now])
               /\ selected_integration' = None
               /\ integration_action' = None
               /\ inputs' = NoInputs
               /\ oauth_flow' = IF oauth_flow = "none" THEN "none" ELSE "connect clicked"
    /\ UNCHANGED <<resolver_vars, store_vars, current_file>>

\* 4_Integrations.py, setup panel: Cancel
ClickCancel ==
    /\ setup_panel_open
    /\ selected_integration' = None
    /\ integration_action' = None
    /\ inputs' = NoInputs
    /\ oauth_flow' = "none"
    /\ UNCHANGED <<resolver_vars, store_vars, current_file, active_integrations>>

\* 4_Integrations.py, Active Connections tab: Sync Data
ClickSyncData ==
    \E i \in 1..Len(active_integrations) :
        LET integration_id == active_integrations[i].key
            connection == active_integrations[i].value
        IN /\ uploaded_files' =
                  save_dataframe(uploaded_files, sync_filename(integration_id), SyncedDataset).files
           /\ active_integrations' =
                  dict_set(active_integrations, integration_id,
                           [connection EXCEPT !.status = "Connected", !.last_sync = Now])
           /\ UNCHANGED <<resolver_vars, store_call, current_file, selected_integration,
                          integration_action, inputs, oauth_flow>>

\* 4_Integrations.py, Active Connections tab: Disconnect. The checkbox is
\* created unticked by the run the click starts, so that run removes nothing
ClickDisconnect ==
    /\ \E i \in 1..Len(active_integrations) : TRUE
    /\ UNCHANGED vars

\* 4_Integrations.py, manage panel: Sync Selected Data, the default selection
ClickSyncSelectedData ==
    /\ manage_panel_open
    /\ LET integration_id == selected_integration[1]
           connection_info == dict_get(active_integrations, integration_id)
           filename == selected_data_filename(integration_id, first_data_type(integration_id))
       IN /\ uploaded_files' = save_dataframe(uploaded_files, filename, SyncedDataset).files
          /\ active_integrations' =
                 dict_set(active_integrations, integration_id,
                          [connection_info EXCEPT !.last_sync = Now])
    /\ UNCHANGED <<resolver_vars, store_call, current_file, selected_integration,
                   integration_action, inputs, oauth_flow>>

\* 4_Integrations.py, manage panel: Back to Integrations
ClickBackToIntegrations ==
    /\ manage_panel_open
    /\ selected_integration' = None
    /\ integration_action' = None
    /\ UNCHANGED <<resolver_vars, store_vars, current_file, active_integrations, inputs,
                   oauth_flow>>

SessionNext ==
    \/ SaveDataset
    \/ LoadSampleDataset
    \/ SetActiveDataset
    \/ DeleteDataset
    \/ SelectOnVisualization
    \/ SelectOnTemplates
    \/ ClickConnect
    \/ ClickManageConnection
    \/ TypeText
    \/ ClickAuthorize
    \/ ClickConnectToService
    \/ ClickCancel
    \/ ClickSyncData
    \/ ClickDisconnect
    \/ ClickSyncSelectedData
    \/ ClickBackToIntegrations

SessionSpec == SessionInit /\ [][SessionNext]_vars

\* ------------------------------------------------------------------ claims
SupportedChartTypes ==
    {"bar_chart", "line_chart", "scatter_plot", "pie_chart", "histogram", "box_plot", "heatmap"}

ColumnRoles == {"x", "y", "color", "size", "names", "values"}

ColumnTypeTags == {"numeric", "datetime", "boolean", "categorical", "text"}

\* column_types[name]
type_of(name) ==
    column_types.types[CHOOSE i \in 1..Len(column_types.types) : column_types.types[i].key = name].value

\* C1: every configuration process_natural_language_query returns has the key
\* chart_type, and its value is one of the seven supported tags.
C1_ChartTypeSupported ==
    /\ HasReturned(viz_config) =>
          /\ "chart_type" \in DOMAIN viz_config
          /\ viz_config["chart_type"] \in SupportedChartTypes
    /\ HasReturned(other_config) =>
          /\ "chart_type" \in DOMAIN other_config
          /\ other_config["chart_type"] \in SupportedChartTypes

\* a histogram request that came back as a bar_chart: the tag was overwritten
C1_Witness ==
    /\ HasReturned(viz_config)
    /\ resolution.viz_type = "histogram"
    /\ viz_config["chart_type"] = "bar_chart"

\* C2: every column role of the returned configuration (x, y, color, size,
\* names, values) names a column of the dataset of the call, the one exception
\* being the box_plot x sentinel "None".
C2_ColumnRolesNameColumns ==
    HasReturned(viz_config) =>
        \A role \in DOMAIN viz_config \cap ColumnRoles :
            \/ list_has(df_columns(df), viz_config[role])
            \/ /\ role = "x"
               /\ viz_config["chart_type"] = "box_plot"
               /\ viz_config[role] = <<"N", "o", "n", "e">>

\* the minimum data requirement of chart type T, on the lists the configurators get
MeetsMinimumRequirement(T, numeric_cols, categorical_cols) ==
    CASE T = "scatter_plot" -> Len(numeric_cols) >= 2
      [] T = "pie_chart" -> Len(categorical_cols) >= 1 /\ Len(numeric_cols) >= 1
      [] T = "histogram" -> Len(numeric_cols) >= 1
      [] T = "box_plot" -> Len(numeric_cols) >= 1
      [] T = "heatmap" -> Len(categorical_cols) >= 2 /\ Len(numeric_cols) >= 1
      [] OTHER -> TRUE

C4_DegradeUsesBarChartRules ==
    ( /\ HasReturned(viz_config)
      /\ resolution.viz_type \notin {"bar_chart", "line_chart"}
      /\ viz_config["chart_type"] = "bar_chart" ) =>
        LET bar == bar_chart_xy([chart_type |-> "bar_chart"], df, resolution.referenced_cols,
                                resolution.numeric_cols, resolution.categorical_cols,
                                resolution.temporal_cols)
        IN /\ bar # IndexError
           /\ viz_config["x"] = bar["x"]
           /\ viz_config["y"] = bar["y"]

\* C5: on a dataset with at least 2 columns the call returns a configuration
\* and never raises.
C5_NeverRaisesWithTwoColumns ==
    Len(df.columns) >= 2 =>
        /\ Called(viz_config) => ~Raised(viz_config)
        /\ Called(other_config) => ~Raised(other_config)

\* no chart keyword, no referenced column and no numeric, categorical or
\* temporal column at all, absorbed into a returned configuration
C5_Witness ==
    /\ Len(df.columns) >= 2
    /\ HasReturned(viz_config)
    /\ query = <<"S", "h", "o", "w">>
    /\ resolution.referenced_cols = <<>>
    /\ resolution.numeric_cols = <<>>
    /\ resolution.categorical_cols = <<>>

\* the call took a branch that binds x and y to df.columns[0] and df.columns[1]
FirstTwoColumnsFallback ==
    LET T == resolution.viz_type
        no_numeric == resolution.numeric_cols = <<>>
    IN \/ T = "bar_chart" /\ Len(resolution.referenced_cols) < 2 /\ no_numeric
       \/ T = "line_chart" /\ resolution.temporal_cols = <<>> /\ no_numeric
       \/ T \in {"scatter_plot", "pie_chart", "histogram", "box_plot"} /\ no_numeric
       \/ T = "heatmap" /\ resolution.categorical_cols = <<>> /\ no_numeric

\* C6 as claimed: when the first-two-columns fallback is taken on a dataset
\* with fewer than 2 columns, the call ends in an index error.
C6_FallbackFailsBelowTwoColumns ==
    ( /\ Called(viz_config)
      /\ FirstTwoColumnsFallback
      /\ Len(df.columns) < 2 ) => Raised(viz_config)

\* C6 as amended: the fallback ends in an index error on a dataset with no
\* columns; on a dataset with exactly one column it returns a configuration
\* whose x and y are both that column.
C6_FallbackFailsOnlyWithoutColumns ==
    ( Called(viz_config) /\ FirstTwoColumnsFallback ) =>
        /\ Len(df.columns) = 0 => Raised(viz_config)
        /\ Len(df.columns) = 1 =>
              /\ HasReturned(viz_config)
              /\ viz_config["x"] = df.columns[1].name
              /\ viz_config["y"] = df.columns[1].name

\* the fallback on a one-column dataset, returned
C6_Witness ==
    /\ Called(viz_config)
    /\ FirstTwoColumnsFallback
    /\ Len(df.columns) = 1
    /\ HasReturned(viz_config)

C8_ClassificationCoversColumns ==
    column_types.called =>
        /\ ~column_types.raised
        /\ [i \in 1..Len(column_types.types) |-> column_types.types[i].key] = df_columns(df)
        /\ \A i \in 1..Len(column_types.types) : column_types.types[i].value \in ColumnTypeTags
        /\ df.columns = <<>> => column_types.types = <<>>

\* a classified dataset with several columns
C8_Witness ==
    /\ column_types.called
    /\ Len(df.columns) >= 3
    /\ Len(column_types.types) >= 3

\* C9: a column that is not of numeric, datetime or boolean dtype, with u
\* distinct values over n rows, is tagged categorical if u < 20 or u/n < 0.1
\* and text otherwise.
C9_CardinalityRule ==
    column_types.called =>
        \A i \in 1..Len(df.columns) :
            LET col == df.columns[i] IN
            ( ~is_numeric_dtype(col) /\ ~is_datetime64_any_dtype(col) /\ ~is_bool_dtype(col) ) =>
                type_of(col.name) =
                    IF col.nunique < 20 \/ 10 * col.nunique < df.rows
                    THEN "categorical"
                    ELSE "text"

\* a column with 20 or more distinct values tagged categorical by the ratio
C9_Witness ==
    /\ column_types.called
    /\ \E i \in 1..Len(df.columns) :
          /\ df.columns[i].dtype = "object"
          /\ df.columns[i].nunique >= 20
          /\ type_of(df.columns[i].name) = "categorical"

\* C10: the rules are tried in the order numeric dtype, datetime dtype, boolean
\* dtype, cardinality heuristic, and a column of boolean dtype is tagged boolean.
C10_BooleanDtypeTaggedBoolean ==
    column_types.called =>
        \A i \in 1..Len(df.columns) :
            LET col == df.columns[i] IN
            type_of(col.name) =
                IF col.dtype \in {"int64", "float64", "int32"} THEN "numeric"
                ELSE IF col.dtype \in {"datetime64", "datetime64tz"} THEN "datetime"
                ELSE IF col.dtype = "bool" THEN "boolean"
                ELSE IF col.nunique < 20 \/ 10 * col.nunique < df.rows THEN "categorical"
                ELSE "text"

\* C11: for a dataset with 0 rows get_column_types raises no division error,
\* every column of numeric, datetime or boolean dtype gets the tag of its
\* dtype, and every other column is tagged categorical.
C11_EmptyDatasetTagsByDtype ==
    ( column_types.called /\ df.rows = 0 ) =>
        /\ ~column_types.raised
        /\ \A i \in 1..Len(df.columns) :
              LET col == df.columns[i] IN
              type_of(col.name) =
                  IF col.dtype \in {"int64", "float64", "int32"} THEN "numeric"
                  ELSE IF col.dtype \in {"datetime64", "datetime64tz"} THEN "datetime"
                  ELSE IF col.dtype = "bool" THEN "boolean"
                  ELSE "categorical"

\* the trigger phrases of the table entry that occur in q
phrases_in(entry, q) == { i \in 1..Len(entry.value) : str_in(entry.value[i], q) }

\* C12: each tag scores the number of its trigger phrases that occur in the
\* lowercased query; when exactly one tag has the highest nonzero score,
\* identify_visualization_type returns it, and "show me a line chart of
\* sales" returns line_chart.
C12_UniqueHighestScoreWins ==
    Called(resolution) =>
        LET q == str_lower(query)
            score(i) == Cardinality(phrases_in(CHART_TYPE_KEYWORDS[i], q))
        IN /\ \A i \in 1..Len(CHART_TYPE_KEYWORDS) :
                 ( /\ score(i) > 0
                   /\ \A j \in 1..Len(CHART_TYPE_KEYWORDS) : j # i => score(j) < score(i) ) =>
                     resolution.viz_type = CHART_TYPE_KEYWORDS[i].key
           /\ query = <<"s", "h", "o", "w", " ", "m", "e", " ", "a", " ", "l", "i", "n", "e", " ", "c", "h", "a", "r", "t", " ", "o", "f", " ", "s", "a", "l", "e", "s">> => resolution.viz_type = "line_chart"

\* box_plot wins with two phrases over pie_chart and histogram with one each
C12_Witness ==
    /\ Called(resolution)
    /\ query = <<"R", "e", "v", "e", "n", "u", "e", " ", "d", "i", "s", "t", "r", "i", "b", "u", "t", "i", "o", "n", " ", "a", "s", " ", "a", " ", "b", "o", "x", " ", "p", "l", "o", "t">>
    /\ resolution.viz_type = "box_plot"

\* C13: when no trigger phrase of any tag occurs in the query the result is
\* line_chart if the query contains "over time", "trend" or "time series" and
\* bar_chart otherwise; a query with "trend" and no other chart keyword gives
\* line_chart and "revenue by region" gives bar_chart.
C13_NoKeywordDefault ==
    Called(resolution) =>
        LET q == str_lower(query)
            other_keyword ==
                \E i \in 1..Len(CHART_TYPE_KEYWORDS) :
                    \E k \in 1..Len(CHART_TYPE_KEYWORDS[i].value) :
                        /\ CHART_TYPE_KEYWORDS[i].value[k] \notin { <<"t", "r", "e", "n", "d">>, <<"t", "r", "e", "n", "d", "s">> }
                        /\ str_in(CHART_TYPE_KEYWORDS[i].value[k], q)
        IN /\ ( \A i \in 1..Len(CHART_TYPE_KEYWORDS) : phrases_in(CHART_TYPE_KEYWORDS[i], q) = {} ) =>
                 resolution.viz_type =
                     IF str_in(<<"o", "v", "e", "r", " ", "t", "i", "m", "e">>, q) \/ str_in(<<"t", "r", "e", "n", "d">>, q) \/ str_in(<<"t", "i", "m", "e", " ", "s", "e", "r", "i", "e", "s">>, q)
                     THEN "line_chart"
                     ELSE "bar_chart"
           /\ ( str_in(<<"t", "r", "e", "n", "d">>, q) /\ ~other_keyword ) => resolution.viz_type = "line_chart"
           /\ query = <<"r", "e", "v", "e", "n", "u", "e", " ", "b", "y", " ", "r", "e", "g", "i", "o", "n">> => resolution.viz_type = "bar_chart"

\* no trigger phrase at all, and "over time" decides
C13_Witness ==
    /\ Called(resolution)
    /\ query = <<"R", "e", "v", "e", "n", "u", "e", " ", "o", "v", "e", "r", " ", "t", "i", "m", "e">>
    /\ resolution.viz_type = "line_chart"

\* the position of a column name in the dataset
column_position(name) == CHOOSE i \in 1..Len(df.columns) : df.columns[i].name = name

\* C14: the list identify_referenced_columns returns has no column twice,
\* holds only columns of the dataset, and keeps the dataset's column order.
C14_ReferencedColumnsInColumnOrder ==
    Called(resolution) =>
        LET r == resolution.referenced_cols IN
        /\ \A i \in 1..Len(r) : list_has(df_columns(df), r[i])
        /\ \A i, j \in 1..Len(r) : i < j =>
              /\ r[i] # r[j]
              /\ column_position(r[i]) < column_position(r[j])

\* the three variants the claim lists for a column name
claimed_variants(name) ==
    LET lowered == str_lower(name)
        normalized == [i \in 1..Len(lowered) |->
                         IF lowered[i] \in {"_", "-"} THEN " " ELSE lowered[i]]
    IN { lowered, normalized,
         IF Len(normalized) > 0 /\ normalized[Len(normalized)] = "s"
         THEN SubSeq(normalized, 1, Len(normalized) - 1)
         ELSE normalized \o <<"s">> }

\* a variant of the column occurs in the lowercased query
mentioned(name) == \E v \in claimed_variants(name) : str_in(v, str_lower(query))

\* C15: identify_referenced_columns returns a column if and only if one of
\* its variants occurs in the lowercased query, also when the variants of
\* two column names coincide.
C15_ReferencedIffVariantOccurs ==
    Called(resolution) =>
        \A i \in 1..Len(df.columns) :
            list_has(resolution.referenced_cols, df.columns[i].name) <=> mentioned(df.columns[i].name)

\* C16 as claimed: for columns Customer_Age and Sale_Amount the query "show me
\* sales by customer age" references both columns.
C16_BothColumnsReferenced ==
    ( /\ Called(resolution)
      /\ df_columns(df) = << <<"C", "u", "s", "t", "o", "m", "e", "r", "_", "A", "g", "e">>, <<"S", "a", "l", "e", "_", "A", "m", "o", "u", "n", "t">> >>
      /\ query = <<"s", "h", "o", "w", " ", "m", "e", " ", "s", "a", "l", "e", "s", " ", "b", "y", " ", "c", "u", "s", "t", "o", "m", "e", "r", " ", "a", "g", "e">> ) =>
        resolution.referenced_cols = << <<"C", "u", "s", "t", "o", "m", "e", "r", "_", "A", "g", "e">>, <<"S", "a", "l", "e", "_", "A", "m", "o", "u", "n", "t">> >>

\* C16 as amended: that query references Customer_Age alone, no variant of
\* Sale_Amount occurring in it; "show me sale amounts by customer age"
\* references both columns.
C16_OnlyCustomerAgeReferenced ==
    ( Called(resolution) /\ df_columns(df) = << <<"C", "u", "s", "t", "o", "m", "e", "r", "_", "A", "g", "e">>, <<"S", "a", "l", "e", "_", "A", "m", "o", "u", "n", "t">> >> ) =>
        /\ query = <<"s", "h", "o", "w", " ", "m", "e", " ", "s", "a", "l", "e", "s", " ", "b", "y", " ", "c", "u", "s", "t", "o", "m", "e", "r", " ", "a", "g", "e">> =>
              resolution.referenced_cols = << <<"C", "u", "s", "t", "o", "m", "e", "r", "_", "A", "g", "e">> >>
        /\ query = <<"s", "h", "o", "w", " ", "m", "e", " ", "s", "a", "l", "e", " ", "a", "m", "o", "u", "n", "t", "s", " ", "b", "y", " ", "c", "u", "s", "t", "o", "m", "e", "r", " ", "a", "g", "e">> =>
              resolution.referenced_cols = << <<"C", "u", "s", "t", "o", "m", "e", "r", "_", "A", "g", "e">>, <<"S", "a", "l", "e", "_", "A", "m", "o", "u", "n", "t">> >>

\* the documented columns and query, resolved
C16_Witness ==
    /\ Called(resolution)
    /\ df_columns(df) = << <<"C", "u", "s", "t", "o", "m", "e", "r", "_", "A", "g", "e">>, <<"S", "a", "l", "e", "_", "A", "m", "o", "u", "n", "t">> >>
    /\ query = <<"s", "h", "o", "w", " ", "m", "e", " ", "s", "a", "l", "e", "s", " ", "b", "y", " ", "c", "u", "s", "t", "o", "m", "e", "r", " ", "a", "g", "e">>
    /\ Len(resolution.referenced_cols) = 1

AggregationOrder == << "sum", "average", "count", "min", "max", "median" >>

\* C17: identify_aggregation returns the first tag, in the order sum, average,
\* count, min, max, median, one of whose trigger phrases occurs in the query,
\* however many phrases of later tags occur, and sum when none occurs.
C17_FirstAggregationInTableOrder ==
    Called(resolution) =>
        LET q == str_lower(query)
            entry(tag) == AGGREGATION_KEYWORDS[CHOOSE i \in 1..Len(AGGREGATION_KEYWORDS) :
                                                  AGGREGATION_KEYWORDS[i].key = tag]
            hit(n) == phrases_in(entry(AggregationOrder[n]), q) # {}
        IN /\ resolution.aggregation \in { AggregationOrder[n] : n \in 1..Len(AggregationOrder) }
           /\ \A n \in 1..Len(AggregationOrder) :
                 ( hit(n) /\ \A m \in 1..(n - 1) : ~hit(m) ) =>
                     resolution.aggregation = AggregationOrder[n]
           /\ ( \A n \in 1..Len(AggregationOrder) : ~hit(n) ) => resolution.aggregation = "sum"

\* count wins with one phrase although max, later in the table, has two
C17_Witness ==
    /\ Called(resolution)
    /\ query = <<"N", "u", "m", "b", "e", "r", " ", "o", "f", " ", "r", "e", "g", "i", "o", "n", "s", " ", "w", "i", "t", "h", " ", "t", "h", "e", " ", "m", "a", "x", "i", "m", "u", "m", " ", "r", "e", "v", "e", "n", "u", "e">>
    /\ resolution.aggregation = "count"

\* the numeric columns of the dataset the query mentions, in dataset order
mentioned_numeric ==
    LET S == { i \in 1..Len(df.columns) :
                 /\ list_has(resolution.numeric_cols, df.columns[i].name)
                 /\ mentioned(df.columns[i].name) }
    IN [k \in 1..Cardinality(S) |-> df.columns[ascending(S)[k]].name]

\* C18: when the query references two numeric columns, a scatter_plot
\* resolution binds x to the one that comes first in the dataset and y to the
\* other, whatever the order of the words in the query.
C18_ScatterBindsReferencedNumericColumns ==
    ( /\ HasReturned(viz_config)
      /\ resolution.viz_type = "scatter_plot"
      /\ Len(mentioned_numeric) = 2 ) =>
        /\ viz_config["chart_type"] = "scatter_plot"
        /\ viz_config["x"] = mentioned_numeric[1]
        /\ viz_config["y"] = mentioned_numeric[2]

\* the columns of the dataset with one of the dtypes
columns_of_dtype(dtypes) == { i \in 1..Len(df.columns) : df.columns[i].dtype \in dtypes }

\* C19: on a dataset with one datetime column D, one categorical column C and
\* one numeric column N, a query that resolves to line_chart and references N
\* returns chart_type line_chart, x = D, y = N and color absent or equal to C.
C19_LineChartOnDatedTable ==
    LET D == columns_of_dtype({"datetime64", "datetime64tz"})
        C == columns_of_dtype({"object", "category"})
        N == columns_of_dtype({"int64", "float64"})
    IN ( /\ HasReturned(viz_config)
         /\ resolution.viz_type = "line_chart"
         /\ Len(df.columns) = 3
         /\ Cardinality(D) = 1 /\ Cardinality(C) = 1 /\ Cardinality(N) = 1
         /\ \E n \in N : mentioned(df.columns[n].name) ) =>
           /\ viz_config["chart_type"] = "line_chart"
           /\ \E d \in D : viz_config["x"] = df.columns[d].name
           /\ \E n \in N : viz_config["y"] = df.columns[n].name
           /\ "color" \in DOMAIN viz_config => \E c \in C : viz_config["color"] = df.columns[c].name

\* the columns get_column_types tags with the tag
tagged(tag) ==
    LET types == get_column_types(df).types IN
    { types[i].key : i \in { j \in 1..Len(types) : types[j].value = tag } }

\* C20: the numeric, categorical and temporal lists the resolver hands to the
\* configurators hold exactly the columns get_column_types tags numeric,
\* categorical and datetime for the same dataset.
C20_ResolverListsMatchClassifier ==
    Called(resolution) =>
        LET elements(l) == { l[i] : i \in 1..Len(l) } IN
        /\ elements(resolution.numeric_cols) = tagged("numeric")
        /\ elements(resolution.categorical_cols) = tagged("categorical")
        /\ elements(resolution.temporal_cols) = tagged("datetime")

ChartTypeOrder ==
    << "bar_chart", "line_chart", "scatter_plot", "pie_chart", "histogram", "box_plot", "heatmap" >>

\* C21: when several tags tie for the highest nonzero score,
\* identify_visualization_type returns the tied tag that comes first in the
\* order bar_chart, line_chart, scatter_plot, pie_chart, histogram, box_plot,
\* heatmap.
C21_TieGoesToFirstInTableOrder ==
    Called(resolution) =>
        LET q == str_lower(query)
            entry(tag) == CHART_TYPE_KEYWORDS[CHOOSE i \in 1..Len(CHART_TYPE_KEYWORDS) :
                                                 CHART_TYPE_KEYWORDS[i].key = tag]
            score(n) == Cardinality(phrases_in(entry(ChartTypeOrder[n]), q))
            tied == { n \in 1..Len(ChartTypeOrder) :
                        /\ score(n) > 0
                        /\ \A m \in 1..Len(ChartTypeOrder) : score(m) <= score(n) }
        IN tied # {} =>
              \E n \in tied :
                  /\ \A m \in tied : n <= m
                  /\ resolution.viz_type = ChartTypeOrder[n]

\* pie_chart and histogram tie on "distribution", and pie_chart comes first
C21_Witness ==
    /\ Called(resolution)
    /\ query = <<"d", "i", "s", "t", "r", "i", "b", "u", "t", "i", "o", "n", " ", "o", "f", " ", "r", "e", "v", "e", "n", "u", "e">>
    /\ resolution.viz_type = "pie_chart"

\* C22: no column is in two of the numeric, categorical and temporal lists
\* the configurators are given.
C22_TypedListsDisjoint ==
    Called(resolution) =>
        LET elements(l) == { l[i] : i \in 1..Len(l) } IN
        /\ elements(resolution.numeric_cols) \cap elements(resolution.categorical_cols) = {}
        /\ elements(resolution.numeric_cols) \cap elements(resolution.temporal_cols) = {}
        /\ elements(resolution.categorical_cols) \cap elements(resolution.temporal_cols) = {}

\* C23: a line_chart on a dataset with a datetime column binds x to the
\* referenced datetime column when the query references one and to the first
\* datetime column otherwise, and y to the first referenced numeric column if
\* any, else the first numeric column.
C23_LineChartPrefersReferencedDatetime ==
    ( /\ HasReturned(viz_config)
      /\ resolution.viz_type = "line_chart"
      /\ resolution.temporal_cols # <<>> ) =>
        LET time_refs == list_filter(resolution.referenced_cols, resolution.temporal_cols)
            num_refs == list_filter(resolution.referenced_cols, resolution.numeric_cols)
        IN /\ viz_config["x"] = IF time_refs # <<>> THEN time_refs[1] ELSE resolution.temporal_cols[1]
           /\ resolution.numeric_cols # <<>> =>
                 viz_config["y"] = IF num_refs # <<>> THEN num_refs[1] ELSE resolution.numeric_cols[1]

\* C24: a bar_chart binds a referenced categorical column to x and a
\* referenced numeric column to y when the query references both; else the
\* first categorical (failing that, the first datetime) column to x and the
\* first numeric column to y; else the first two numeric columns; and the
\* first two dataset columns only when none of these applies.
C24_BarChartPriority ==
    ( HasReturned(viz_config) /\ resolution.viz_type = "bar_chart" ) =>
        LET cat_refs == list_filter(resolution.referenced_cols, resolution.categorical_cols)
            num_refs == list_filter(resolution.referenced_cols, resolution.numeric_cols)
            numeric_cols == resolution.numeric_cols
            categorical_cols == resolution.categorical_cols
            temporal_cols == resolution.temporal_cols
            xy == IF cat_refs # <<>> /\ num_refs # <<>> THEN << cat_refs[1], num_refs[1] >>
                  ELSE IF categorical_cols # <<>> /\ numeric_cols # <<>>
                  THEN << categorical_cols[1], numeric_cols[1] >>
                  ELSE IF temporal_cols # <<>> /\ numeric_cols # <<>>
                  THEN << temporal_cols[1], numeric_cols[1] >>
                  ELSE IF Len(numeric_cols) >= 2 THEN << numeric_cols[1], numeric_cols[2] >>
                  ELSE << df.columns[1].name, second_or_first_column(df) >>
        IN viz_config["x"] = xy[1] /\ viz_config["y"] = xy[2]

\* C25: a pie_chart on a dataset with a categorical and a numeric column binds
\* names to the first referenced categorical column, else the first
\* categorical column, and values to the first referenced numeric column,
\* else the first numeric column, each chosen on its own; hole is 0.
C25_PieChartIndependentBindings ==
    ( /\ HasReturned(viz_config)
      /\ resolution.viz_type = "pie_chart"
      /\ resolution.categorical_cols # <<>>
      /\ resolution.numeric_cols # <<>> ) =>
        LET cat_refs == list_filter(resolution.referenced_cols, resolution.categorical_cols)
            num_refs == list_filter(resolution.referenced_cols, resolution.numeric_cols)
        IN /\ viz_config["chart_type"] = "pie_chart"
           /\ viz_config["names"] = IF cat_refs # <<>> THEN cat_refs[1] ELSE resolution.categorical_cols[1]
           /\ viz_config["values"] = IF num_refs # <<>> THEN num_refs[1] ELSE resolution.numeric_cols[1]
           /\ viz_config["hole"] = 0

ConfigurationKeys ==
    { "chart_type", "title", "x", "y", "color", "size", "names", "values", "hole", "bins",
      "orientation", "markers", "color_scale" }

\* C27: the configuration a configurator returns is the same for every
\* aggregation tag it could be passed, and carries no aggregation entry.
C27_ConfigurationIgnoresAggregation ==
    Called(resolution) =>
        LET config == [chart_type |-> resolution.viz_type, title |-> str_capitalize(str_lower(query))]
            r == resolution
        IN /\ \A aggregation \in { AggregationOrder[n] : n \in 1..Len(AggregationOrder) } :
                 /\ r.viz_type = "bar_chart" =>
                       configure_bar_chart(config, df, r.referenced_cols, r.numeric_cols,
                           r.categorical_cols, r.temporal_cols, aggregation) = r.config
                 /\ r.viz_type = "line_chart" =>
                       configure_line_chart(config, df, r.referenced_cols, r.numeric_cols,
                           r.categorical_cols, r.temporal_cols, aggregation) = r.config
                 /\ r.viz_type = "pie_chart" =>
                       configure_pie_chart(config, df, r.referenced_cols, r.numeric_cols,
                           r.categorical_cols, aggregation) = r.config
           /\ HasReturned(r.config) => DOMAIN r.config \subseteq ConfigurationKeys

\* a bar_chart resolved from a query that asks for the minimum
C27_Witness ==
    /\ HasReturned(viz_config)
    /\ resolution.viz_type = "bar_chart"
    /\ resolution.aggregation = "min"


\* the dataframes a dict holds under a name: none, or one
stored_under(files, f) == {files[i].value : i \in {j \in 1..Len(files) : files[j].key = f}}

\* the names a dict holds
stored_names(files) == {files[i].key : i \in 1..Len(files)}

\* one call of a store function, seen on the map from names to dataframes
StoreCallActsOnMap ==
    LET call == store_call'
        f == call.filename[1]
        others_kept == \A g \in StoreNames \ {f} :
                           stored_under(uploaded_files', g) = stored_under(uploaded_files, g)
    IN CASE call.fn = "save_dataframe" ->
                /\ call.returned = Some(TRUE)
                /\ stored_under(uploaded_files', f) = {call.dataframe[1]}
                /\ stored_names(uploaded_files') = stored_names(uploaded_files) \cup {f}
                /\ others_kept
         [] call.fn = "delete_dataframe" ->
                IF f \in stored_names(uploaded_files)
                THEN /\ call.returned = Some(TRUE)
                     /\ stored_names(uploaded_files') = stored_names(uploaded_files) \ {f}
                     /\ others_kept
                ELSE /\ call.returned = Some(FALSE)
                     /\ uploaded_files' = uploaded_files
         [] call.fn = "get_dataframe" ->
                /\ uploaded_files' = uploaded_files
                /\ IF f \in stored_names(uploaded_files)
                   THEN ~call.raised /\ stored_under(uploaded_files, f) = {call.returned[1]}
                   ELSE call.raised
         [] call.fn = "list_uploaded_files" ->
                /\ uploaded_files' = uploaded_files
                /\ ~call.raised
                /\ Len(call.returned[1]) = Cardinality(stored_names(uploaded_files))
                /\ {call.returned[1][i] : i \in 1..Len(call.returned[1])} = stored_names(uploaded_files)
         [] OTHER -> FALSE

\* C28: every call of save_dataframe, get_dataframe, delete_dataframe and
\* list_uploaded_files acts on the store as on a map from names to dataframes:
\* a save binds the name to the dataframe passed and leaves the other names
\* alone, a delete of a stored name returns True and unbinds it, a delete of
\* any other name returns False and changes nothing, a get returns the
\* dataframe bound to the name and raises FileNotFoundError for an unbound
\* name, and the list holds each bound name once and nothing else.
C28_StoreBehavesAsMap == [][StoreCallActsOnMap]_vars

\* a stored dataframe was replaced by a second save under the same name, read
\* back by get_dataframe, while another name is stored too
C28_Witness ==
    /\ store_call.fn = "get_dataframe"
    /\ store_call.returned = Some("second dataframe")
    /\ Len(uploaded_files) >= 2
    /\ uploaded_files[1].key = store_call.filename[1]

\* C29: current_file is None or the name of a dataset in uploaded_files.
C29_CurrentFileIsStored ==
    current_file = None \/ current_file[1] \in stored_names(uploaded_files)

\* the active dataset was deleted while another dataset stayed stored
C29_Witness ==
    /\ current_file = None
    /\ uploaded_files # <<>>

\* C30: once Authorize and then Connect to Service were clicked in the setup
\* panel of an oauth integration, the integration is in active_integrations
\* with status Connected.
C30_OAuthConnectsAfterAuthorize ==
    oauth_flow = "connect clicked" =>
        \E i \in 1..Len(AvailableIntegrations) :
            /\ AvailableIntegrations[i].auth_type = "oauth"
            /\ dict_has(active_integrations, AvailableIntegrations[i].id)
            /\ dict_get(active_integrations, AvailableIntegrations[i].id).status = "Connected"

=========================================================================
